---- MODULE Spec2Model ----
(***************************************************************************)
(* A model of resize.py (class ImageResizer): the size calculator          *)
(* _calculate_size with Python's float arithmetic, and the single-item,    *)
(* URL-list and folder operations over an abstract file system.            *)
(***************************************************************************)
EXTENDS Integers, Sequences, FiniteSets

(***************************************************************************)
(* Python floats (IEEE-754 binary64, round to nearest, ties to even).      *)
(* A non-negative double is lead.d1 d2 d3 d4 * 2^exp, the four digits in   *)
(* base 2^13 (4 * 13 = 52 fraction bits); lead is 1 for a normal number    *)
(* and 0 for 0.0.                                                          *)
(***************************************************************************)
Base == 2 ^ 13

FZero == [lead |-> 0, exp |-> 0, dig |-> <<0, 0, 0, 0>>]

\* x plus one unit in the last place (the carry may reach the next binade).
FInc(x) ==
    LET d == x.dig
    IN  IF d[4] + 1 < Base THEN [x EXCEPT !.dig = <<d[1], d[2], d[3], d[4] + 1>>]
        ELSE IF d[3] + 1 < Base THEN [x EXCEPT !.dig = <<d[1], d[2], d[3] + 1, 0>>]
        ELSE IF d[2] + 1 < Base THEN [x EXCEPT !.dig = <<d[1], d[2] + 1, 0, 0>>]
        ELSE IF d[1] + 1 < Base THEN [x EXCEPT !.dig = <<d[1] + 1, 0, 0, 0>>]
        ELSE [lead |-> 1, exp |-> x.exp + 1, dig |-> <<0, 0, 0, 0>>]

\* <<A, B, t>> with B <= A < 2B and a/b = (A/B) * 2^t, for a, b > 0.
RECURSIVE FNorm(_, _, _)
FNorm(A, B, t) ==
    IF A < B THEN FNorm(2 * A, B, t - 1)
    ELSE IF A >= 2 * B THEN FNorm(A, 2 * B, t + 1)
    ELSE <<A, B, t>>

\* a / b for integers a >= 0, b > 0 (int / int true division, correctly rounded);
\* the sizes here are far below 2^17, where the digits' products stay in range.
FDiv(a, b) ==
    IF a = 0 THEN FZero
    ELSE
    LET n  == FNorm(a, b, 0)
        B  == n[2]
        r0 == n[1] - B
        d1 == (r0 * Base) \div B
        r1 == (r0 * Base) % B
        d2 == (r1 * Base) \div B
        r2 == (r1 * Base) % B
        d3 == (r2 * Base) \div B
        r3 == (r2 * Base) % B
        d4 == (r3 * Base) \div B
        r4 == (r3 * Base) % B
        q  == [lead |-> 1, exp |-> n[3], dig |-> <<d1, d2, d3, d4>>]
    IN  IF 2 * r4 > B \/ (2 * r4 = B /\ d4 % 2 = 1) THEN FInc(q) ELSE q

\* floor(log2(p)) for p >= 1.
RECURSIVE Log2(_)
Log2(p) == IF p < 2 THEN 0 ELSE 1 + Log2(p \div 2)

\* n * x for an integer 0 <= n < 2^12 and a double x (int * float, correctly
\* rounded): the exact product, shifted back to one leading bit and rounded.
FMul(n, x) ==
    IF n = 0 \/ x.lead = 0 THEN FZero
    ELSE
    LET d  == x.dig
        p4 == d[4] * n
        p3 == d[3] * n + p4 \div Base
        p2 == d[2] * n + p3 \div Base
        p1 == d[1] * n + p2 \div Base
        P  == n + p1 \div Base
        D  == <<P, p1 % Base, p2 % Base, p3 % Base, p4 % Base>>
        j  == Log2(P)
        lo == 2 ^ j
        hi == Base \div lo
        s  == [i \in 1..4 |-> (D[i] % lo) * hi + D[i + 1] \div lo]
        out == D[5] % lo
        q  == [lead |-> 1, exp |-> x.exp + j, dig |-> <<s[1], s[2], s[3], s[4]>>]
    IN  IF j > 0 /\ (2 * out > lo \/ (2 * out = lo /\ s[4] % 2 = 1))
        THEN FInc(q) ELSE q

\* x < y.
FLess(x, y) ==
    IF x.lead # y.lead THEN x.lead < y.lead
    ELSE IF x.lead = 0 THEN FALSE
    ELSE IF x.exp # y.exp THEN x.exp < y.exp
    ELSE \E i \in 1..4 :
            /\ x.dig[i] < y.dig[i]
            /\ \A k \in 1..(i - 1) : x.dig[k] = y.dig[k]

\* min(x, y) of Python: y only when y < x.
FMin(x, y) == IF FLess(y, x) THEN y ELSE x

\* int(x) as it would be if it rounded half up instead of truncating.
FIntNearest(x) ==
    LET y == IF x.lead = 0 THEN x ELSE [x EXCEPT !.exp = x.exp + 1]
        D == <<y.lead>> \o y.dig
        Term(i) ==
            LET k == y.exp - 13 * (i - 1)
            IN  IF k >= 0 THEN D[i] * 2 ^ k
                ELSE IF k > -13 THEN D[i] \div 2 ^ (0 - k)
                ELSE 0
    IN  (Term(1) + Term(2) + Term(3) + Term(4) + Term(5) + 1) \div 2

\* int(x): truncation toward zero.
FInt(x) ==
    LET D == <<x.lead>> \o x.dig
        Term(i) ==
            LET k == x.exp - 13 * (i - 1)
            IN  IF k >= 0 THEN D[i] * 2 ^ k
                ELSE IF k > -13 THEN D[i] \div 2 ^ (0 - k)
                ELSE 0
    IN  Term(1) + Term(2) + Term(3) + Term(4) + Term(5)

(***************************************************************************)
(* Python values: an optional argument is None or a value; `if x:` tests   *)
(* truthiness, so None and a zero number both count as absent.             *)
(***************************************************************************)
None == <<>>

Some(v) == <<v>>

Truthy(x) == x # None /\ x[1] # 0

FloatTruthy(x) == x # None /\ x[1].lead # 0

\* What a call yields when a division by zero raises.
ZeroDivisionError == <<"ZeroDivisionError">>

\* _calculate_size as it would be if the width/height box were tested before scale.
_calculate_size_box_first(original_size, width, height, scale, maintain_aspect) ==
    LET orig_w == original_size[1]
        orig_h == original_size[2]
    IN  IF Truthy(width) /\ Truthy(height)
        THEN IF maintain_aspect
             THEN IF orig_w = 0 \/ orig_h = 0 THEN ZeroDivisionError
                  ELSE LET ratio == FMin(FDiv(width[1], orig_w), FDiv(height[1], orig_h))
                       IN  <<FInt(FMul(orig_w, ratio)), FInt(FMul(orig_h, ratio))>>
             ELSE <<width[1], height[1]>>
        ELSE IF FloatTruthy(scale)
        THEN <<FInt(FMul(orig_w, scale[1])), FInt(FMul(orig_h, scale[1]))>>
        ELSE IF Truthy(width)
        THEN IF orig_w = 0 THEN ZeroDivisionError
             ELSE LET ratio == FDiv(width[1], orig_w)
                  IN  <<width[1], FInt(FMul(orig_h, ratio))>>
        ELSE IF Truthy(height)
        THEN IF orig_h = 0 THEN ZeroDivisionError
             ELSE LET ratio == FDiv(height[1], orig_h)
                  IN  <<FInt(FMul(orig_w, ratio)), height[1]>>
        ELSE original_size

(***************************************************************************)
(* ImageResizer._calculate_size                                            *)
(***************************************************************************)
_calculate_size(original_size, width, height, scale, maintain_aspect) ==
    LET orig_w == original_size[1]
        orig_h == original_size[2]
    IN  IF FloatTruthy(scale)
        THEN <<FInt(FMul(orig_w, scale[1])), FInt(FMul(orig_h, scale[1]))>>
        ELSE IF Truthy(width) /\ Truthy(height)
        THEN IF maintain_aspect
             THEN IF orig_w = 0 \/ orig_h = 0 THEN ZeroDivisionError
                  ELSE LET ratio == FMin(FDiv(width[1], orig_w), FDiv(height[1], orig_h))
                       IN  <<FInt(FMul(orig_w, ratio)), FInt(FMul(orig_h, ratio))>>
             ELSE <<width[1], height[1]>>
        ELSE IF Truthy(width)
        THEN IF orig_w = 0 THEN ZeroDivisionError
             ELSE LET ratio == FDiv(width[1], orig_w)
                  IN  <<width[1], FInt(FMul(orig_h, ratio))>>
        ELSE IF Truthy(height)
        THEN IF orig_h = 0 THEN ZeroDivisionError
             ELSE LET ratio == FDiv(height[1], orig_h)
                  IN  <<FInt(FMul(orig_w, ratio)), height[1]>>
        ELSE original_size

(***************************************************************************)
(* Strings, file names and paths.  A file name is <<stem, suffix>>; a path  *)
(* is its components and whether it is absolute.                           *)
(***************************************************************************)
SUPPORTED_FORMATS == {".jpg", ".jpeg", ".png", ".bmp", ".gif", ".tiff", ".webp"}

\* str.lower() on the suffixes and format tags in use.
lower(s) ==
    CASE s = ".JPG" -> ".jpg"   [] s = ".Jpg" -> ".jpg"   [] s = ".JPEG" -> ".jpeg"
      [] s = ".PNG" -> ".png"   [] s = ".BMP" -> ".bmp"   [] s = ".GIF" -> ".gif"
      [] s = ".TIFF" -> ".tiff" [] s = ".WEBP" -> ".webp"
      [] s = "JPG" -> "jpg"     [] s = "JPEG" -> "jpeg"   [] s = "PNG" -> "png"
      [] OTHER -> s

\* str.upper() on the suffixes in use.
upper(s) ==
    CASE s = ".jpg" -> ".JPG"   [] s = ".Jpg" -> ".JPG"   [] s = ".jpeg" -> ".JPEG"
      [] s = ".png" -> ".PNG"   [] s = ".bmp" -> ".BMP"   [] s = ".gif" -> ".GIF"
      [] s = ".tiff" -> ".TIFF" [] s = ".webp" -> ".WEBP"
      [] OTHER -> s

Dir(d) == <<d, "">>

ParentDir == Dir("..")

RelPath(parts) == [abs |-> FALSE, parts |-> parts]

AbsPath(parts) == [abs |-> TRUE, parts |-> parts]

\* Path.name and Path.stem: of the last component.
PathName(p) == IF p.parts = <<>> THEN <<"", "">> ELSE p.parts[Len(p.parts)]

PathStem(p) == PathName(p)[1]

\* a / b of pathlib: an absolute right operand replaces the left one.
PathJoin(a, b) == IF b.abs THEN b ELSE [abs |-> a.abs, parts |-> a.parts \o b.parts]

\* The file the operating system opens for a path: ".." steps to the parent.
RECURSIVE Collapse(_, _, _)
Collapse(abs, done, rest) ==
    IF rest = <<>> THEN done
    ELSE IF rest[1] # ParentDir THEN Collapse(abs, Append(done, rest[1]), Tail(rest))
    ELSE IF done # <<>> /\ done[Len(done)] # ParentDir
         THEN Collapse(abs, SubSeq(done, 1, Len(done) - 1), Tail(rest))
    ELSE IF abs THEN Collapse(abs, done, Tail(rest))
    ELSE Collapse(abs, Append(done, rest[1]), Tail(rest))

Resolve(p) == [abs |-> p.abs, parts |-> Collapse(p.abs, <<>>, p.parts)]

Parent(p) == [p EXCEPT !.parts = SubSeq(p.parts, 1, Len(p.parts) - 1)]

(***************************************************************************)
(* ImageResizer.__init__: the output folder, created if absent.            *)
(***************************************************************************)
output_folder == RelPath(<<Dir("resized_images")>>)

\* The directories that exist: the working directory, the output folder, /tmp.
Directories == {RelPath(<<>>), output_folder, AbsPath(<<Dir("tmp")>>)}

(***************************************************************************)
(* PIL: Image.resize and Image.save.  The files are a function from the    *)
(* paths that exist to "complete" or "partial" (opened for writing and not *)
(* written to the end).                                                    *)
(***************************************************************************)
\* The format save() takes from the file name's suffix; "" when it knows none.
FormatOfSuffix(ext) ==
    CASE ext = ".jpg" -> "JPEG" [] ext = ".jpeg" -> "JPEG" [] ext = ".png" -> "PNG"
      [] ext = ".bmp" -> "BMP"  [] ext = ".gif" -> "GIF"   [] ext = ".tiff" -> "TIFF"
      [] ext = ".webp" -> "WEBP"
      [] OTHER -> ""

AlphaModes == {"RGBA", "LA"}

\* The formats that cannot hold an alpha channel: their writer refuses the mode.
NoAlphaFormats == {"JPEG"}

\* img.resize(new_size, LANCZOS) raises for a side below 1.
ResizeRaises(size) == size = ZeroDivisionError \/ size[1] < 1 \/ size[2] < 1

WriteFile(files, p, state) ==
    [q \in DOMAIN files \cup {p} |-> IF q = p THEN state ELSE files[q]]

\* resized.save(output_path, **save_kwargs): the format comes from the suffix
\* (unknown: raises before opening); the file is opened "w+b", which creates or
\* empties it; when the writer then raises (the mode is refused, or the disk
\* fails), a file that save() created is removed and one that was there stays cut.
Save(files, path, mode, save_kwargs, disk) ==
    LET p      == Resolve(path)
        format == FormatOfSuffix(lower(PathName(p)[2]))
        record == [path |-> path, mode |-> mode, format |-> format,
                   kwargs |-> save_kwargs]
    IN  IF format = "" \/ Parent(p) \notin Directories
        THEN [ok |-> FALSE, fs |-> files, save |-> Some(record)]
        ELSE IF disk # "ok" \/ (mode \in AlphaModes /\ format \in NoAlphaFormats)
        THEN [ok |-> FALSE,
              fs |-> IF p \in DOMAIN files THEN WriteFile(files, p, "partial") ELSE files,
              save |-> Some(record)]
        ELSE [ok |-> TRUE, fs |-> WriteFile(files, p, "complete"), save |-> Some(record)]

(***************************************************************************)
(* ImageResizer.process_from_url.  net is what the request does ("ok" or   *)
(* "error": a timeout, a DNS failure, a non-success status), disk what the *)
(* write does.  The result: ret (the output path or None), the files, the  *)
(* save that was attempted (or None), and whether it wrote the artifact.   *)
(***************************************************************************)
Failed(files, attempt) == [ret |-> None, fs |-> files, save |-> attempt, saved |-> FALSE]

\* The mode the image has when it is saved (lines 54-60 and 121-126).
ModeToSave(mode, output_format) ==
    IF output_format # None /\ output_format[1] # "" /\ lower(output_format[1]) = "png"
    THEN mode
    ELSE IF mode = "RGBA" /\ output_format # None /\ output_format[1] # ""
            /\ lower(output_format[1]) \in {"jpg", "jpeg"}
    THEN "RGB"
    ELSE mode

KwargsToSave(output_format) ==
    IF output_format # None /\ output_format[1] # "" /\ lower(output_format[1]) = "png"
    THEN {"optimize"}
    ELSE {"quality", "optimize"}

process_from_url(files, url, net, disk, width, height, scale, maintain_aspect, output_format, filename) ==
    IF net # "ok" THEN Failed(files, None)
    ELSE IF url.body.kind # "image" THEN Failed(files, None)
    ELSE
    LET img       == url.body
        new_size  == _calculate_size(img.size, width, height, scale, maintain_aspect)
        derived   == IF url.name # <<"", "">> THEN url.name ELSE <<"downloaded_image", "">>
        name1     == IF filename # None /\ filename[1].parts # <<>>
                     THEN filename[1]
                     ELSE IF lower(derived[2]) \in SUPPORTED_FORMATS
                          THEN RelPath(<<derived>>)
                          ELSE RelPath(<<<<derived[1] \o derived[2], ".jpg">>>>)
        name2     == IF output_format # None /\ output_format[1] # ""
                     THEN RelPath(<<<<PathStem(name1), "." \o lower(output_format[1])>>>>)
                     ELSE name1
        output_path == PathJoin(output_folder, name2)
        s         == Save(files, output_path, ModeToSave(img.mode, output_format),
                          KwargsToSave(output_format), disk)
    IN  IF ResizeRaises(new_size) THEN Failed(files, None)
        ELSE IF ~s.ok THEN Failed(s.fs, s.save)
        ELSE [ret |-> Some(output_path), fs |-> s.fs, save |-> s.save, saved |-> TRUE]

(***************************************************************************)
(* ImageResizer._get_images and the body of process_from_folder's loop.    *)
(***************************************************************************)
\* The files a folder may hold, in the order sorted() gives their paths.
FolderFiles ==
    << [name |-> <<"a", ".jpg">>,  body |-> [kind |-> "image", mode |-> "RGB",  size |-> <<2, 2>>]],
       [name |-> <<"b", ".JPG">>,  body |-> [kind |-> "image", mode |-> "RGB",  size |-> <<3, 1>>]],
       [name |-> <<"c", ".Jpg">>,  body |-> [kind |-> "image", mode |-> "RGB",  size |-> <<2, 2>>]],
       [name |-> <<"d", ".png">>,  body |-> [kind |-> "image", mode |-> "RGBA", size |-> <<2, 2>>]],
       [name |-> <<"e", ".webp">>, body |-> [kind |-> "garbage", mode |-> "", size |-> <<0, 0>>]],
       [name |-> <<"f", ".txt">>,  body |-> [kind |-> "garbage", mode |-> "", size |-> <<0, 0>>]] >>

\* Path.__lt__ on the paths of one folder.
Rank(f) == CHOOSE i \in 1..Len(FolderFiles) : FolderFiles[i] = f

PathLess(f, g) == Rank(f) < Rank(g)

RECURSIVE Insert(_, _)
Insert(f, seq) ==
    IF seq = <<>> THEN <<f>>
    ELSE IF PathLess(f, seq[1]) THEN <<f>> \o seq
    ELSE <<seq[1]>> \o Insert(f, Tail(seq))

RECURSIVE sorted(_)
sorted(seq) == IF seq = <<>> THEN <<>> ELSE Insert(seq[1], sorted(Tail(seq)))

RECURSIVE ListOf(_)
ListOf(S) == IF S = {} THEN <<>> ELSE LET x == CHOOSE y \in S : TRUE
                                      IN  <<x>> \o ListOf(S \ {x})

\* folder.glob("*" + pattern): by the suffix, exactly on a POSIX system and
\* without regard to case on Windows.
Glob(folder, pattern, posix) ==
    ListOf({f \in folder : IF posix THEN f.name[2] = pattern
                                     ELSE lower(f.name[2]) = lower(pattern)})

RECURSIVE Globbed(_, _, _)
Globbed(folder, exts, posix) ==
    IF exts = <<>> THEN <<>>
    ELSE Glob(folder, exts[1], posix) \o Glob(folder, upper(exts[1]), posix)
             \o Globbed(folder, Tail(exts), posix)

_get_images(folder, posix) == sorted(Globbed(folder, ListOf(SUPPORTED_FORMATS), posix))

\* One pass of the loop of process_from_folder (lines 97-133).
process_folder_item(files, img_path, disk, width, height, scale, maintain_aspect, output_format) ==
    IF img_path.body.kind # "image" THEN Failed(files, None)
    ELSE
    LET img       == img_path.body
        new_size  == _calculate_size(img.size, width, height, scale, maintain_aspect)
        filename  == IF output_format # None /\ output_format[1] # ""
                     THEN <<img_path.name[1], "." \o lower(output_format[1])>>
                     ELSE img_path.name
        output_path == PathJoin(output_folder, RelPath(<<filename>>))
        s         == Save(files, output_path, ModeToSave(img.mode, output_format),
                          KwargsToSave(output_format), disk)
    IN  IF ResizeRaises(new_size) THEN Failed(files, None)
        ELSE IF ~s.ok THEN Failed(s.fs, s.save)
        ELSE [ret |-> Some(output_path), fs |-> s.fs, save |-> s.save, saved |-> TRUE]

(***************************************************************************)
(* The inputs of the size calculator.                                      *)
(***************************************************************************)
MaxDim == 3

MaxTarget == 3

MaxScaleNum == 3

MaxScaleDen == 4

\* Original sizes: the small ones, and one at which 3 / orig_w rounds down.
Dims == (1..MaxDim) \cup {47}

Targets == {None} \cup {Some(n) : n \in 1..MaxTarget}

Scales == {None} \cup {Some(FDiv(n, d)) : n \in 1..MaxScaleNum, d \in 1..MaxScaleDen}

(***************************************************************************)
(* The inputs of the single-item and batch operations.                     *)
(***************************************************************************)
MaxCalls == 2

MaxBatch == 2

MaxFolder == 2

Image(mode, size) == [kind |-> "image", mode |-> mode, size |-> size]

Garbage == [kind |-> "garbage", mode |-> "", size |-> <<0, 0>>]

\* http://h/a.jpg (an RGB image), http://h/logo (an RGBA image, no suffix) and
\* http://h/page.html (not an image).
Urls ==
    { [name |-> <<"a", ".jpg">>,     body |-> Image("RGB", <<2, 2>>)],
      [name |-> <<"logo", "">>,      body |-> Image("RGBA", <<3, 1>>)],
      [name |-> <<"page", ".html">>, body |-> Garbage] }

UrlLists == UNION {[1..n -> Urls] : n \in 0..MaxBatch}

FolderFileSet == {FolderFiles[i] : i \in 1..Len(FolderFiles)}

Folders == {S \in SUBSET FolderFileSet : Cardinality(S) <= MaxFolder}

OutputFormats == {None, Some("png"), Some("JPG")}

Widths == {None, Some(1)}

\* filename: absent, "pic.png", "../pic.png", "/tmp/pic.png", "sub/pic.png".
Filenames ==
    { None,
      Some(RelPath(<<<<"pic", ".png">>>>)),
      Some(RelPath(<<ParentDir, <<"pic", ".png">>>>)),
      Some(AbsPath(<<Dir("tmp"), <<"pic", ".png">>>>)),
      Some(RelPath(<<Dir("sub"), <<"pic", ".png">>>>)) }

Outcomes == {"ok", "error"}

EmptyFiles == [p \in {} |-> "complete"]

\* mkdir(parents=True, exist_ok=True): the output folder may already hold files.
InitialFiles ==
    { EmptyFiles,
      WriteFile(EmptyFiles, PathJoin(output_folder, RelPath(<<<<"logo", ".jpg">>>>)), "complete") }

VARIABLES
    original_size,      \* the size of the decoded image
    width, height,      \* the requested width and height, or None
    scale,              \* the requested scale (a float), or None
    maintain_aspect,    \* the flag
    new_size,           \* what _calculate_size returned; <<>> before the call
    again,              \* what it returns for new_size as the original; <<>> before
    fs,                 \* the files that exist, each "complete" or "partial"
    before,             \* the files as they were when the last item was started
    ret,                \* what the last process_from_url returned
    save,               \* the save the last item attempted, or None
    call,               \* the arguments of the last direct process_from_url call
    calls,              \* the number of direct calls made
    pc,                 \* "idle", "urls" or "folder" (in the loop), "done"
    items,              \* the list the loop runs over
    idx,                \* the position of the loop in items
    successful,         \* the tally (successful / processed)
    opts,               \* the shared keyword arguments of the batch
    log,                \* the items the loop has finished, with their outcome
    reported,           \* the "Completed! n/m" line, or None
    folder,             \* the files of the input folder
    posix               \* whether glob matches case-sensitively

calcVars == <<original_size, width, height, scale, maintain_aspect, new_size, again>>

itemVars == <<fs, before, ret, save>>

callVars == <<call, calls>>

batchVars == <<pc, items, idx, successful, opts, log, reported, folder, posix>>

vars == <<calcVars, itemVars, callVars, batchVars>>

request == <<original_size, width, height, scale, maintain_aspect>>

CalcIdle ==
    /\ original_size = <<1, 1>>
    /\ width = None /\ height = None /\ scale = None
    /\ maintain_aspect = TRUE
    /\ new_size = <<>> /\ again = <<>>

ItemIdle == before = fs /\ ret = None /\ save = None

CallIdle == call = None /\ calls = 0

BatchIdle ==
    /\ pc = "idle"
    /\ items = <<>> /\ idx = 0 /\ successful = 0
    /\ opts = None /\ log = <<>> /\ reported = None
    /\ folder = {}

(***************************************************************************)
(* The size calculator on its own.                                         *)
(***************************************************************************)
CalcInit ==
    /\ original_size \in Dims \X Dims
    /\ width \in Targets
    /\ height \in Targets
    /\ scale \in Scales
    /\ maintain_aspect \in BOOLEAN
    /\ new_size = <<>>
    /\ again = <<>>
    /\ fs = EmptyFiles /\ ItemIdle /\ CallIdle /\ BatchIdle /\ posix = TRUE

\* new_size = self._calculate_size(img.size, width, height, scale, maintain_aspect)
Calculate ==
    /\ new_size = <<>>
    /\ new_size' = _calculate_size(original_size, width, height, scale, maintain_aspect)
    /\ UNCHANGED <<request, again, itemVars, callVars, batchVars>>

\* The same request on an image that already has the size just returned.
Recalculate ==
    /\ new_size # <<>>
    /\ again = <<>>
    /\ again' = _calculate_size(new_size, width, height, scale, maintain_aspect)
    /\ UNCHANGED <<request, new_size, itemVars, callVars, batchVars>>

CalcNext == Calculate \/ Recalculate

SpecCalc == CalcInit /\ [][CalcNext]_vars

(***************************************************************************)
(* Direct calls of process_from_url.                                       *)
(***************************************************************************)
UrlInit ==
    /\ CalcIdle
    /\ fs \in InitialFiles
    /\ ItemIdle /\ CallIdle /\ BatchIdle /\ posix = TRUE

ProcessFromUrl ==
    /\ calls < MaxCalls
    /\ \E url \in Urls, net \in Outcomes, disk \in Outcomes, w \in Widths,
          output_format \in OutputFormats, filename \in Filenames :
          LET r == process_from_url(fs, url, net, disk, w, None, None, TRUE,
                                    output_format, filename)
          IN  /\ fs' = r.fs
              /\ before' = fs
              /\ ret' = r.ret
              /\ save' = r.save
              /\ call' = Some([url |-> url, width |-> w,
                               output_format |-> output_format, filename |-> filename])
    /\ calls' = calls + 1
    /\ UNCHANGED <<calcVars, batchVars>>

UrlNext == ProcessFromUrl

SpecUrl == UrlInit /\ [][UrlNext]_vars

(***************************************************************************)
(* process_from_urls and process_from_folder: one batch, its loop taken    *)
(* one item at a time.                                                     *)
(***************************************************************************)
BatchInit ==
    /\ CalcIdle
    /\ fs \in InitialFiles
    /\ ItemIdle /\ CallIdle /\ BatchIdle
    /\ posix \in BOOLEAN

BatchOpts == [width : Widths, output_format : OutputFormats]

\* process_from_urls, lines 74-75.
StartUrls ==
    /\ pc = "idle"
    /\ \E urls \in UrlLists, kwargs \in BatchOpts :
          /\ items' = urls
          /\ opts' = Some(kwargs)
    /\ pc' = "urls"
    /\ idx' = 1
    /\ successful' = 0
    /\ UNCHANGED <<calcVars, itemVars, callVars, log, reported, folder, posix>>

\* The pass as it would be if it counted every call, whatever it returned.
UrlsStepBody_count_all(r) ==
    /\ successful' = successful + 1
    /\ idx' = idx + 1

\* One pass of the loop: successful counts the calls that return a path.
UrlsStepBody(r) ==
    /\ successful' = IF r.ret # None THEN successful + 1 ELSE successful
    /\ idx' = idx + 1

\* process_from_urls, lines 77-80.
UrlsStep ==
    /\ pc = "urls"
    /\ idx <= Len(items)
    /\ \E net \in Outcomes, disk \in Outcomes :
          LET r == process_from_url(fs, items[idx], net, disk, opts[1].width, None,
                                    None, TRUE, opts[1].output_format, None)
          IN  /\ fs' = r.fs
              /\ before' = fs
              /\ ret' = r.ret
              /\ save' = r.save
              /\ log' = Append(log, [item |-> items[idx], saved |-> r.saved])
              /\ UrlsStepBody(r)
    /\ UNCHANGED <<calcVars, callVars, pc, items, opts, reported, folder, posix>>

\* process_from_urls, lines 82-83, and process_from_folder, lines 135-136.
Finish ==
    /\ pc \in {"urls", "folder"}
    /\ idx > Len(items)
    /\ reported' = Some(<<successful, Len(items)>>)
    /\ pc' = "done"
    /\ UNCHANGED <<calcVars, itemVars, callVars, items, idx, successful, opts, log,
                   folder, posix>>

\* process_from_folder, lines 86-94: no image found ends the call.
StartFolder ==
    /\ pc = "idle"
    /\ \E input \in Folders, kwargs \in BatchOpts :
          /\ folder' = input
          /\ items' = _get_images(input, posix)
          /\ opts' = Some(kwargs)
    /\ pc' = IF items' = <<>> THEN "done" ELSE "folder"
    /\ idx' = 1
    /\ successful' = 0
    /\ UNCHANGED <<calcVars, itemVars, callVars, log, reported, posix>>

\* One pass of the loop: processed counts the items whose save returned.
FolderStepBody(r) ==
    /\ successful' = IF r.saved THEN successful + 1 ELSE successful
    /\ idx' = idx + 1

\* process_from_folder, lines 96-133.
FolderStep ==
    /\ pc = "folder"
    /\ idx <= Len(items)
    /\ \E disk \in Outcomes :
          LET r == process_folder_item(fs, items[idx], disk, opts[1].width, None,
                                       None, TRUE, opts[1].output_format)
          IN  /\ fs' = r.fs
              /\ before' = fs
              /\ ret' = r.ret
              /\ save' = r.save
              /\ log' = Append(log, [item |-> items[idx], saved |-> r.saved])
              /\ FolderStepBody(r)
    /\ UNCHANGED <<calcVars, callVars, pc, items, opts, reported, folder, posix>>

BatchNext == StartUrls \/ UrlsStep \/ StartFolder \/ FolderStep \/ Finish

SpecBatch == BatchInit /\ [][BatchNext]_vars

Sized == new_size # <<>>

FromInt(n) == FDiv(n, 1)

FLeq(x, y) == ~FLess(y, x)

\* C1: the computed width and height are both at least 1.
C1_PositiveSize == Sized => new_size[1] >= 1 /\ new_size[2] >= 1

\* C2: one policy decides the result, in the order scale, width and height
\* together, width alone, height alone, unchanged: with scale given the result is
\* the same for every width, height and maintain_aspect; without scale and with
\* both width and height the box policy applies (the common ratio, or the box
\* itself when maintain_aspect is off); then width alone, then height alone;
\* with nothing given the result is the original size.
C2_PolicyPriority ==
    LET orig_w == original_size[1]
        orig_h == original_size[2]
    IN  Sized =>
        /\ scale # None =>
              \A W \in Targets, H \in Targets, m \in BOOLEAN :
                  _calculate_size(original_size, W, H, scale, m) = new_size
        /\ (scale = None /\ width # None /\ height # None /\ ~maintain_aspect) =>
              new_size = <<width[1], height[1]>>
        /\ (scale = None /\ width # None /\ height # None /\ maintain_aspect) =>
              \E ratio \in {FDiv(width[1], orig_w), FDiv(height[1], orig_h)} :
                  /\ FLeq(ratio, FDiv(width[1], orig_w))
                  /\ FLeq(ratio, FDiv(height[1], orig_h))
                  /\ new_size = <<FInt(FMul(orig_w, ratio)), FInt(FMul(orig_h, ratio))>>
        /\ (scale = None /\ width # None /\ height = None) =>
              new_size = <<width[1], FInt(FMul(orig_h, FDiv(width[1], orig_w)))>>
        /\ (scale = None /\ width = None /\ height # None) =>
              new_size = <<FInt(FMul(orig_w, FDiv(height[1], orig_h))), height[1]>>
        /\ (scale = None /\ width = None /\ height = None) =>
              new_size = original_size

\* C2 witness: scale, width and height all given, and the result is neither the
\* box nor the original size: scale alone decided it.
C2_ScaleOverridesBox ==
    /\ Sized
    /\ scale # None /\ width # None /\ height # None /\ ~maintain_aspect
    /\ new_size # <<width[1], height[1]>>
    /\ new_size # original_size

\* C4 (as claimed): with scale given, each side is the product rounded to the
\* nearest integer (either neighbour accepted on a tie).
C4_RoundsToNearest ==
    (Sized /\ scale # None) =>
        \A i \in 1..2 :
            LET twice == FMul(2, FMul(original_size[i], scale[1]))
            IN  /\ (new_size[i] > 0 => FLeq(FromInt(2 * new_size[i] - 1), twice))
                /\ FLeq(twice, FromInt(2 * new_size[i] + 1))

\* C4 (amended): with scale given, each side is the float product truncated
\* toward zero, whatever maintain_aspect is: r <= w * s < r + 1, and for a scale
\* n / d with d a power of two (the product is then exact) r = floor(w * n / d).
C4_TruncatesProduct ==
    (Sized /\ scale # None) =>
        \A i \in 1..2 :
            LET product == FMul(original_size[i], scale[1])
            IN  /\ FLeq(FromInt(new_size[i]), product)
                /\ FLess(product, FromInt(new_size[i] + 1))
                /\ \A n \in 1..MaxScaleNum, d \in {1, 2, 4} :
                       scale = Some(FDiv(n, d)) =>
                           new_size[i] = (original_size[i] * n) \div d

\* C4 witness: 3 * 0.75 = 2.25 and 1 * 0.75 = 0.75 are cut to 2 and 0.
C4_TruncatedCase ==
    /\ original_size = <<3, 1>>
    /\ scale = Some(FDiv(3, 4))
    /\ new_size = <<2, 0>>

\* C3: with scale absent, both width and height given and maintain_aspect set,
\* the result fits the box and touches it on at least one side.
C3_FitsBoxWithEquality ==
    (Sized /\ ~FloatTruthy(scale) /\ width # None /\ height # None /\ maintain_aspect)
        => /\ new_size[1] <= width[1]
           /\ new_size[2] <= height[1]
           /\ (new_size[1] = width[1] \/ new_size[2] = height[1])

\* C8: without scale, the same request applied to the returned size returns
\* that size again.
C8_Idempotent == (again # <<>> /\ scale = None) => again = new_size

Saved == {i \in 1..Len(log) : log[i].saved}

\* C5: in a batch the items are taken once each, in list order, one finished
\* before the next is started; a failed item does not stop the later ones; and
\* the count reported at the end is the number of items whose artifact was saved.
C5_BatchTally ==
    pc # "idle" =>
        /\ Len(log) = idx - 1
        /\ Len(log) <= Len(items)
        /\ \A i \in 1..Len(log) : log[i].item = items[i]
        /\ successful = Cardinality(Saved)
        /\ (Len(log) > 0 /\ log[Len(log)].saved) =>
               /\ save # None
               /\ Resolve(save[1].path) \in DOMAIN fs
               /\ fs[Resolve(save[1].path)] = "complete"
        /\ (Len(log) > 0 /\ ~log[Len(log)].saved) => ret = None
        /\ reported # None =>
               /\ Len(log) = Len(items)
               /\ reported[1] = <<Cardinality(Saved), Len(items)>>

\* C5 witness: a finished batch of two whose first item failed and whose second
\* was saved.
C5_FailureThenSuccess ==
    /\ pc = "done"
    /\ reported = Some(<<1, 2>>)
    /\ Len(log) = 2
    /\ ~log[1].saved
    /\ log[2].saved

\* C6: a process_from_url call returns the path with that one artifact written
\* complete, or returns None with the files exactly as they were.
C6_AllOrNothing ==
    call # None =>
        IF ret # None
        THEN fs = WriteFile(before, Resolve(ret[1]), "complete")
        ELSE fs = before

\* Whether a path names a file inside the output folder.
InOutputFolder(p) ==
    LET r == Resolve(p)
        n == Len(output_folder.parts)
    IN  /\ r.abs = output_folder.abs
        /\ Len(r.parts) > n
        /\ SubSeq(r.parts, 1, n) = output_folder.parts

\* C7: every file process_from_url writes or changes is inside the output folder.
C7_WritesInsideOutputFolder ==
    call # None =>
        \A p \in DOMAIN fs :
            (p \notin DOMAIN before \/ fs[p] # before[p]) => InOutputFolder(p)

\* C9: no save is attempted with an image that has an alpha channel and a target
\* format without alpha support.
C9_NoAlphaSaveToNonAlphaFormat ==
    save # None => ~(save[1].mode \in AlphaModes /\ save[1].format \in NoAlphaFormats)

\* C10: _get_images returns, sorted and once each, exactly the files whose
\* suffix is one of the supported ones without regard to case.
C10_ImagesOfFolder ==
    folder # {} =>
        items = SelectSeq(FolderFiles,
                          LAMBDA f : f \in folder /\ lower(f.name[2]) \in SUPPORTED_FORMATS)
====
